---- MODULE Spec2Model ----
(***************************************************************************)
(* Packet Defender: the packet capture engine (packet_sniffer.py), its      *)
(* bounded producer/consumer queue, and the render loop that consumes it    *)
(* (main.py).                                                               *)
(*                                                                          *)
(* The capture thread is modelled step by step: one step per access to the  *)
(* shared state (the events, the blocked set, the queue), so that every     *)
(* interleaving with the controlling/consuming thread is explored.          *)
(***************************************************************************)
EXTENDS Integers, Sequences, FiniteSets, TLC

(***************************************************************************)
(* Bounds of the model.                                                     *)
(***************************************************************************)
\* capacity of packet_queue (config.py sets 500; scaled down)
MAX_QUEUE_SIZE == 2
\* number of capture threads that can exist at the same time
MaxThreads == 2
\* largest batch one simulation-loop iteration generates (randint(1, 3))
MaxBatch == 2
\* packets generated over a whole run
MaxPkts == 3
\* time.time() when the sniffer is constructed, seconds
StartOfTime == 5
\* seconds between two readings of the clock
TickStep == 5
\* the clock stops here
MaxTime == 15
\* the clock of a game of waves stops here
MaxWaveTime == 60
\* Config.MAX_PACKETS of main.py, the cap on packet sprites (80; scaled down)
MAX_PACKETS == 2

(***************************************************************************)
(* config.py: the static IP lists.                                          *)
(***************************************************************************)
WHITELISTED_IPS ==
  { "127.0.0.1", "192.168.1.1", "192.168.1.10", "192.168.1.20",
    "192.168.1.100", "10.0.0.1", "10.0.0.5", "172.16.0.1",
    "8.8.8.8", "8.8.4.4", "1.1.1.1" }

BLACKLISTED_IPS ==
  { "103.75.201.2", "185.156.73.54", "45.155.205.233", "194.26.192.64",
    "89.248.165.52", "45.146.164.110", "185.220.101.1", "23.129.64.100",
    "91.240.118.172", "185.100.87.41" }

SUSPICIOUS_IPS ==
  { "45.33.32.156", "199.87.154.255", "91.189.91.157", "104.131.0.69",
    "178.62.0.100" }

SERVER_IPS ==
  { "192.168.1.100", "192.168.1.101", "192.168.1.102", "192.168.1.103",
    "192.168.1.104" }

\* packets per second outside an attack
NORMAL_PACKET_RATE == 5

\* the intensity of an attack type that configures none
ATTACK_PACKET_RATE == 50

\* ATTACK_TYPES: intensity and, except for NONE, duration in seconds
ATTACK_TYPES ==
  [ NONE        |-> [ intensity |-> 0 ],
    PORT_SCAN   |-> [ intensity |-> 20,  duration |-> 5 ],
    SYN_FLOOD   |-> [ intensity |-> 100, duration |-> 10 ],
    DDOS        |-> [ intensity |-> 200, duration |-> 15 ],
    BRUTE_FORCE |-> [ intensity |-> 30,  duration |-> 8 ],
    PING_FLOOD  |-> [ intensity |-> 150, duration |-> 10 ] ]

\* dict.get(key, default)
DictGet(d, key, default) == IF key \in DOMAIN d THEN d[key] ELSE default

\* THREAT_LEVELS[name]["damage"]
ThreatDamage ==
  [ SAFE |-> 0, UNKNOWN |-> 1, SUSPICIOUS |-> 3, HOSTILE |-> 5, CRITICAL |-> 10 ]

\* THREAT_LEVELS[name]["sprite"]
ThreatSprite ==
  [ SAFE |-> "blue", UNKNOWN |-> "yellow", SUSPICIOUS |-> "orange",
    HOSTILE |-> "red", CRITICAL |-> "skull" ]

ThreatLevel == { "SAFE", "UNKNOWN", "SUSPICIOUS", "HOSTILE", "CRITICAL" }

SnifferStatus ==
  { "STOPPED", "STARTING", "RUNNING", "PAUSED", "ERROR", "SHUTTING_DOWN" }

(***************************************************************************)
(* Inputs the model draws from.                                             *)
(***************************************************************************)
\* arguments of block_ip and unblock_ip: one whitelisted and one blacklisted
\* address
BlockArgs == { "8.8.8.8", "103.75.201.2" }
\* arguments of trigger_attack: a lower-case name, the name of the entry
\* without duration, and a name ATTACK_TYPES does not have
AttackArgs == { "port_scan", "NONE", "bogus" }

\* str.upper() and str.lower() on the names of the model
Upper(name) ==
  CASE name = "port_scan" -> "PORT_SCAN"
    [] name = "none" -> "NONE"
    [] name = "bogus" -> "BOGUS"
    [] OTHER -> name

Lower(name) ==
  CASE name = "PORT_SCAN" -> "port_scan"
    [] name = "NONE" -> "none"
    [] name = "BOGUS" -> "bogus"
    [] OTHER -> name

\* the blacklisted address the attack packets of the model come from
AttackSources == { "103.75.201.2" }

\* the addresses of the model that str.startswith finds private
PrivatePrefixIPs ==
  { "192.168.1.1", "192.168.1.10", "192.168.1.20", "192.168.1.100",
    "192.168.1.101", "192.168.1.102", "192.168.1.103", "192.168.1.104",
    "10.0.0.1", "10.0.0.5", "172.16.0.1" }

(***************************************************************************)
(* Packet (dataclass) and its classification.                               *)
(***************************************************************************)
\* Packet._classify: threat level and first tag from the source address
ClassifyLevelByListName(src_ip) ==
  IF src_ip \in BLACKLISTED_IPS THEN "CRITICAL"
  ELSE IF src_ip \in SUSPICIOUS_IPS THEN "SUSPICIOUS"
  ELSE IF src_ip \in WHITELISTED_IPS THEN "SAFE"
  ELSE "UNKNOWN"

ClassifyLevel(src_ip) ==
  IF src_ip \in BLACKLISTED_IPS THEN "CRITICAL"
  ELSE IF src_ip \in SUSPICIOUS_IPS THEN "HOSTILE"
  ELSE IF src_ip \in WHITELISTED_IPS THEN "SAFE"
  ELSE "UNKNOWN"

ClassifyTag(src_ip) ==
  IF src_ip \in BLACKLISTED_IPS THEN "blacklisted"
  ELSE IF src_ip \in SUSPICIOUS_IPS THEN "suspicious"
  ELSE IF src_ip \in WHITELISTED_IPS THEN "whitelisted"
  ELSE "unknown_source"

IsInternal(ip) == ip \in SERVER_IPS \/ ip \in PrivatePrefixIPs

\* Packet._determine_direction
DetermineDirection(src_ip, dst_ip) ==
  IF IsInternal(src_ip) /\ IsInternal(dst_ip) THEN "internal"
  ELSE IF IsInternal(dst_ip) THEN "inbound"
  ELSE IF IsInternal(src_ip) THEN "outbound"
  ELSE "external"

\* Packet(...) followed by __post_init__ -> _classify
NewPacket(id, src_ip, dst_ip, dst_port, protocol, size) ==
  LET level == ClassifyLevel(src_ip) IN
  [ pytype       |-> "Packet",
    packet_id    |-> id,
    src_ip       |-> src_ip,
    dst_ip       |-> dst_ip,
    dst_port     |-> dst_port,
    protocol     |-> protocol,
    size         |-> size,
    threat_level |-> level,
    direction    |-> DetermineDirection(src_ip, dst_ip),
    is_blocked   |-> FALSE,
    is_processed |-> FALSE,
    damage       |-> ThreatDamage[level],
    sprite_type  |-> ThreatSprite[level],
    tags         |-> << ClassifyTag(src_ip) >> ]

\* Packet.mark_blocked
mark_blocked_color_only(p) ==
  [ p EXCEPT !.damage = 0, !.tags = Append(@, "blocked") ]

mark_blocked(p) ==
  [ p EXCEPT !.is_blocked = TRUE, !.damage = 0, !.tags = Append(@, "blocked") ]

\* _generate_attack_packets: a packet of the burst, its classification
\* forced and tagged with the attack
AttackPacket(id, src_ip, dst_ip, dst_port, atype) ==
  LET p == NewPacket(id, src_ip, dst_ip, dst_port,
                     IF atype = "PING_FLOOD" THEN "ICMP" ELSE "TCP", 64)
      level == IF src_ip \in BLACKLISTED_IPS THEN "CRITICAL" ELSE "HOSTILE"
  IN [ p EXCEPT !.threat_level = level,
                !.damage = ThreatDamage[level],
                !.sprite_type = ThreatSprite[level],
                !.tags = Append(@, "attack:" \o Lower(atype)) ]

\* Packet.mark_processed
mark_processed(p) == [ p EXCEPT !.is_processed = TRUE ]

(***************************************************************************)
(* game_enhancements.py: WaveSystem.                                        *)
(***************************************************************************)
\* WaveSystem.wave_duration, seconds per wave
wave_duration == 30

\* WaveSystem.break_duration, seconds between waves
break_duration == 5

\* WaveSystem.total_waves
total_waves == 10

Min(a, b) == IF a < b THEN a ELSE b

Max(a, b) == IF a > b THEN a ELSE b

\* _generate_wave_configs: the configuration of one wave (spawn_rate in
\* thousandths, malicious_chance in hundredths, the speed multiplier in
\* tenths)
WaveConfig(wave_num) ==
  [ wave_number |-> wave_num,
    spawn_rate_per_mille |-> Min(30 + wave_num * 8, 150),
    malicious_chance_percent |-> Min(10 + wave_num * 5, 60),
    packet_speed_tenths |-> 10 + wave_num,
    duration |-> 30 + wave_num * 5,
    boss_wave |-> wave_num % 5 = 0 ]

\* WaveSystem.wave_configs
wave_configs == [ i \in 1 .. total_waves |-> WaveConfig(i) ]

\* get_current_config(): << >> stands for None
get_current_config(w) ==
  IF 0 < w.current_wave /\ w.current_wave <= Len(wave_configs)
  THEN << wave_configs[w.current_wave] >>
  ELSE << >>

\* WaveSystem.__init__
WaveInit ==
  [ current_wave |-> 0, wave_active |-> FALSE, wave_start_time |-> 0,
    in_break |-> FALSE, break_start_time |-> 0, waves_completed |-> 0 ]

\* _start_break at time t
start_break(w, t) ==
  [ w EXCEPT !.wave_active = FALSE, !.in_break = TRUE, !.break_start_time = t ]

\* _start_wave at time t
start_wave(w, t) ==
  [ w EXCEPT !.current_wave = @ + 1, !.wave_active = TRUE, !.in_break = FALSE,
             !.wave_start_time = t ]

\* _complete_wave at time t
complete_wave(w, t) ==
  start_break([ w EXCEPT !.waves_completed = @ + 1, !.wave_active = FALSE ], t)

\* start_game() at time t
start_game(w, t) ==
  start_break([ w EXCEPT !.current_wave = 0, !.wave_active = FALSE,
                         !.waves_completed = 0 ], t)

\* the duration update() holds the running wave to
WaveDurationOf(w) ==
  LET config == get_current_config(w)
  IN IF config # << >> THEN config[1].duration ELSE wave_duration

\* update() at time t: the wave system after it
update(w, t) ==
  IF w.in_break
  THEN IF t - w.break_start_time >= break_duration /\ w.current_wave < total_waves
       THEN start_wave(w, t)
       ELSE w
  ELSE IF w.wave_active
  THEN IF t - w.wave_start_time >= WaveDurationOf(w)
       THEN complete_wave(w, t)
       ELSE w
  ELSE w

\* update() at time t: the status it returns
update_status(w, t) ==
  IF w.in_break
  THEN [ wave_active |-> FALSE, in_break |-> TRUE, current_wave |-> update(w, t).current_wave,
         remaining |-> Max(0, break_duration - (t - w.break_start_time)) ]
  ELSE IF w.wave_active
  THEN [ wave_active |-> TRUE, in_break |-> FALSE, current_wave |-> w.current_wave,
         remaining |-> Max(0, WaveDurationOf(w) - (t - w.wave_start_time)) ]
  ELSE [ wave_active |-> FALSE, in_break |-> FALSE, current_wave |-> w.current_wave,
         remaining |-> 0 ]

(***************************************************************************)
(* State.                                                                   *)
(***************************************************************************)
VARIABLES
  status,           \* PacketSniffer.status
  simulation_mode,  \* PacketSniffer.simulation_mode
  stop_event,       \* PacketSniffer._stop_event
  pause_event,      \* PacketSniffer._pause_event
  capture_thread,   \* PacketSniffer._capture_thread (0: None)
  threads,          \* the capture threads ever started and where each stands
  packet_queue,     \* PacketSniffer.packet_queue
  blocked_ips,      \* PacketSniffer._blocked_ips
  statistics,       \* PacketSniffer.statistics
  next_id,          \* packets generated so far
  traffic,          \* the source addresses seen on the network
  game,             \* CyberDefenseGame: sprites on screen, blocked_ips, defense_mode
  mpc,              \* where the controlling/consuming thread stands
  macc,             \* its local variable (packets / count / attack_type)
  last_call,        \* the public call that returned last, and its result
  attack_active,        \* PacketSniffer._attack_active
  attack_type,          \* PacketSniffer._attack_type ("None": None)
  attack_start_time,    \* PacketSniffer._attack_start_time
  attack_duration,      \* PacketSniffer._attack_duration
  current_rate,         \* PacketSniffer._current_rate
  on_packet_callback,   \* PacketSniffer._on_packet_callback ("None" or "set")
  on_attack_callback,   \* PacketSniffer._on_attack_callback
  on_error_callback,    \* PacketSniffer._on_error_callback
  last_error,           \* PacketSniffer._last_error, by the kind of message
  scapy_available,      \* PacketSniffer._scapy_available
  now,                  \* time.time(), in seconds
  wave                  \* the WaveSystem of game_enhancements.py

vars ==
  << status, simulation_mode, stop_event, pause_event,
     capture_thread, threads, packet_queue, blocked_ips, statistics,
     next_id, traffic, game, mpc, macc, last_call,
     attack_active, attack_type, attack_start_time, attack_duration,
     current_rate, on_packet_callback, on_attack_callback, on_error_callback,
     last_error, scapy_available, now, wave >>

\* the attack simulation's fields
AttackVars ==
  << attack_active, attack_type, attack_start_time, attack_duration, current_rate >>

\* the registered callbacks
CallbackVars == << on_packet_callback, on_attack_callback, on_error_callback >>

Threads == 1 .. MaxThreads

\* a thread that does not exist or has finished (is_alive() is False)
DeadThread ==
  [ pc |-> "dead", real |-> FALSE, remaining |-> 0, pkt |-> << >>,
    saw_full |-> FALSE, ret |-> "None", attack |-> "None", cb_raised |-> FALSE ]

is_alive(t) == t # 0 /\ threads[t].pc # "dead"

AliveThreads == { t \in Threads : threads[t].pc # "dead" }

\* packets of the batches in progress that are not generated yet
RECURSIVE SumRemaining(_)
SumRemaining(S) ==
  IF S = {} THEN 0
  ELSE LET t == CHOOSE x \in S : TRUE
       IN threads[t].remaining + SumRemaining(S \ {t})

Call(op, ret) == [ op |-> op, ret |-> ret ]

\* _init_scapy: what it leaves in simulation_mode, _scapy_available and
\* _last_error, for the mode asked for and for whether Scapy can be imported
InitScapy(simulation, scapy_loads) ==
  [ simulation_mode |-> simulation \/ ~scapy_loads,
    scapy_available |-> ~simulation /\ scapy_loads,
    last_error      |-> IF ~simulation /\ ~scapy_loads THEN "scapy" ELSE "None" ]

\* PacketSniffer.__init__(simulation_mode) on a machine where Scapy can or
\* cannot be imported
ConstructSniffer(simulation, scapy_loads) ==
  /\ status = "STOPPED"
  /\ simulation_mode = InitScapy(simulation, scapy_loads).simulation_mode
  /\ stop_event = FALSE
  /\ pause_event = FALSE
  /\ capture_thread = 0
  /\ threads = [ t \in Threads |-> DeadThread ]
  /\ packet_queue = << >>
  /\ blocked_ips = {}
  /\ statistics = [ total_captured |-> 0, total_blocked |-> 0, total_allowed |-> 0 ]
  /\ next_id = 0
  /\ game = [ packet_sprites |-> 0, blocked_ips |-> {}, defense_mode |-> "MANUAL" ]
  /\ mpc = "idle"
  /\ macc = << >>
  /\ last_call = Call("__init__", "None")
  /\ attack_active = FALSE
  /\ attack_type = "None"
  /\ attack_start_time = 0
  /\ attack_duration = 0
  /\ current_rate = NORMAL_PACKET_RATE
  /\ on_packet_callback = "None"
  /\ on_attack_callback = "None"
  /\ on_error_callback = "None"
  /\ last_error = InitScapy(simulation, scapy_loads).last_error
  /\ scapy_available = InitScapy(simulation, scapy_loads).scapy_available
  /\ now = StartOfTime
  /\ wave = WaveInit

\* the sniffer constructed for either mode where Scapy is installed
InitSniffer == \E simulation \in BOOLEAN : ConstructSniffer(simulation, TRUE)

\* the sniffer on a network whose traffic comes from one whitelisted source
Init ==
  /\ InitSniffer
  /\ traffic = { "8.8.8.8" }

(***************************************************************************)
(* The capture thread.                                                      *)
(***************************************************************************)
SnifferUnchanged ==
  UNCHANGED << traffic, game, status, simulation_mode, stop_event,
               pause_event, capture_thread, blocked_ips,
               CallbackVars, scapy_available, now, wave >>

\* _process_packet and sniff() touch neither the attack nor _last_error
AttackUnchanged == UNCHANGED << AttackVars, last_error >>

\* what the operations outside the attack simulation, the callbacks and the
\* error handler leave alone
HooksUnchanged ==
  UNCHANGED << AttackVars, CallbackVars, last_error, scapy_available, now, wave >>
MainUnchanged == UNCHANGED << mpc, macc, last_call >>

\* packet_queue.put_nowait raises queue.Full (Queue(maxsize=MAX_QUEUE_SIZE))
QueueFullOffByOne(q) == Len(q) > MAX_QUEUE_SIZE

QueueFull(q) == Len(q) >= MAX_QUEUE_SIZE

\* self._pause_event.is_set(), as the capture loops ask it
PauseNeverSeen == FALSE

PauseIsSet == pause_event

\* CaptureStatistics.update
StatsUpdate(s, p) ==
  [ s EXCEPT !.total_captured = @ + 1,
             !.total_blocked  = IF p.is_blocked THEN @ + 1 ELSE @,
             !.total_allowed  = IF p.is_blocked THEN @ ELSE @ + 1 ]

\* stop_attack(): what it writes
StopAttackWrites ==
  /\ attack_active' = FALSE
  /\ attack_type' = "None"
  /\ current_rate' = NORMAL_PACKET_RATE
  /\ UNCHANGED << attack_start_time, attack_duration >>

\* time.time() - self._attack_start_time >= self._attack_duration
AttackElapsed == now - attack_start_time >= attack_duration

\* _generate_simulated_packets during an attack: a burst of
\* randint(intensity // 2, intensity) attack packets and perhaps one normal
\* packet, cut at MaxBatch
BurstSizes(atype) ==
  LET intensity == DictGet(DictGet(ATTACK_TYPES, atype, << >>), "intensity", 50)
  IN { IF n < MaxBatch THEN n ELSE MaxBatch : n \in (intensity \div 2) .. (intensity + 1) }

\* _simulation_loop: the top of one iteration (stop check, pause check, end
\* of an attack whose time is over, _generate_simulated_packets decides the
\* kind and the size of the batch)
SimLoopTop(t) ==
  /\ threads[t].pc = "loop"
  /\ \/ /\ stop_event
        /\ threads' = [ threads EXCEPT ![t] = DeadThread ]
        /\ UNCHANGED AttackVars
     \/ /\ ~stop_event
        /\ PauseIsSet
        /\ UNCHANGED << threads, AttackVars >>
     \/ /\ ~stop_event
        /\ ~PauseIsSet
        /\ LET over == attack_active /\ AttackElapsed IN
           /\ IF over THEN StopAttackWrites ELSE UNCHANGED AttackVars
           /\ IF attack_active /\ ~over
              THEN \E n \in BurstSizes(attack_type) :
                     /\ next_id + SumRemaining(Threads) + n <= MaxPkts
                     /\ threads' = [ threads EXCEPT
                                       ![t].pc = IF n = 0 THEN "loop" ELSE "process",
                                       ![t].remaining = n,
                                       ![t].attack = attack_type ]
              ELSE \E n \in 1 .. MaxBatch :
                     /\ next_id + SumRemaining(Threads) + n <= MaxPkts
                     /\ threads' = [ threads EXCEPT ![t].pc = "process",
                                                    ![t].remaining = n,
                                                    ![t].attack = "None" ]
  /\ UNCHANGED << packet_queue, statistics, next_id, last_error >>
  /\ SnifferUnchanged /\ MainUnchanged

\* what a call of a callback can do: nothing when none is registered,
\* return (FALSE) or raise (TRUE) otherwise
CallbackOutcomes(callback) == IF callback = "None" THEN { FALSE } ELSE BOOLEAN

\* _process_packet up to the queue: the blocked check (mark_blocked) and the
\* statistics
ProcessBegin(t, p, rest) ==
  LET q == IF p.src_ip \in blocked_ips THEN mark_blocked(p) ELSE p IN
  /\ statistics' = StatsUpdate(statistics, q)
  /\ \E raised \in CallbackOutcomes(on_packet_callback) :
       \* the exception of the callback is caught on the spot
       threads' = [ threads EXCEPT ![t].pc = "put", ![t].pkt = << q >>,
                                   ![t].remaining = rest,
                                   ![t].saw_full = FALSE, ![t].ret = "None",
                                   ![t].cb_raised = raised ]
  /\ next_id' = next_id + 1

\* _simulation_loop: `for packet in packets: self._process_packet(packet)`
\* with the packet as _generate_normal_packet builds it
SimProcess(t) ==
  /\ threads[t].pc = "process"
  /\ \/ /\ \/ threads[t].attack = "None"
           \/ threads[t].remaining = 1
        /\ \E src \in traffic :
             ProcessBegin(t, NewPacket(next_id + 1, src, "192.168.1.100", 80, "TCP", 64),
                          threads[t].remaining - 1)
     \/ /\ threads[t].attack # "None"
        /\ DictGet(DictGet(ATTACK_TYPES, threads[t].attack, << >>), "intensity", 50) > 0
        /\ \E src \in AttackSources :
             ProcessBegin(t, AttackPacket(next_id + 1, src, "192.168.1.100", 22,
                                          threads[t].attack),
                          threads[t].remaining - 1)
  /\ UNCHANGED packet_queue
  /\ SnifferUnchanged /\ MainUnchanged /\ AttackUnchanged

\* _process_packet has returned r: the next packet of the batch, or
\* time.sleep and the next iteration (simulation); back into sniff() (real
\* capture).  The record keeps the result of the call.
Returned(th, r) ==
  [ th EXCEPT !.ret = r, !.pkt = << >>,
              !.pc = IF th.real THEN "sniff"
                     ELSE IF th.remaining > 0 THEN "process" ELSE "loop" ]

\* _process_packet: `if packet.is_blocked: return False`, else put_nowait
ProcessPut(t) ==
  LET th == threads[t]
      p  == th.pkt[1] IN
  /\ th.pc = "put"
  /\ IF p.is_blocked
     THEN /\ threads' = [ threads EXCEPT ![t] = Returned(th, "False") ]
          /\ UNCHANGED packet_queue
     ELSE IF ~QueueFull(packet_queue)
     THEN /\ packet_queue' = Append(packet_queue, p)
          /\ threads' = [ threads EXCEPT ![t] = Returned(th, "True") ]
     ELSE \* queue.Full
          /\ threads' = [ threads EXCEPT ![t].pc = "full_get", ![t].saw_full = TRUE ]
          /\ UNCHANGED packet_queue
  /\ UNCHANGED << statistics, next_id >>
  /\ SnifferUnchanged /\ MainUnchanged /\ AttackUnchanged

\* _process_packet, `except Full:` the get_nowait that removes the oldest
ProcessFullGet(t) ==
  /\ threads[t].pc = "full_get"
  /\ IF packet_queue = << >>
     THEN \* queue.Empty, caught by the bare except
          /\ threads' = [ threads EXCEPT ![t] = Returned(threads[t], "False") ]
          /\ UNCHANGED packet_queue
     ELSE /\ packet_queue' = Tail(packet_queue)
          /\ threads' = [ threads EXCEPT ![t].pc = "full_put" ]
  /\ UNCHANGED << statistics, next_id >>
  /\ SnifferUnchanged /\ MainUnchanged /\ AttackUnchanged

\* _process_packet, `except Full:` the second put_nowait
ProcessFullPut(t) ==
  /\ threads[t].pc = "full_put"
  /\ IF ~QueueFull(packet_queue)
     THEN /\ packet_queue' = Append(packet_queue, threads[t].pkt[1])
          /\ threads' = [ threads EXCEPT ![t] = Returned(threads[t], "True") ]
     ELSE \* queue.Full again, caught by the bare except
          /\ threads' = [ threads EXCEPT ![t] = Returned(threads[t], "False") ]
          /\ UNCHANGED packet_queue
  /\ UNCHANGED << statistics, next_id >>
  /\ SnifferUnchanged /\ MainUnchanged /\ AttackUnchanged

\* _real_capture_loop: sniff() hands a packet to packet_handler, then asks
\* stop_filter
SniffPacket(t) ==
  /\ threads[t].pc = "sniff"
  /\ \/ /\ stop_event
        /\ threads' = [ threads EXCEPT ![t] = DeadThread ]
        /\ UNCHANGED << statistics, next_id >>
     \/ /\ ~stop_event
        /\ PauseIsSet
        /\ UNCHANGED << threads, statistics, next_id >>
     \/ /\ ~stop_event
        /\ ~PauseIsSet
        /\ next_id + SumRemaining(Threads) < MaxPkts
        /\ \E src \in traffic :
             ProcessBegin(t, NewPacket(next_id + 1, src, "192.168.1.100", 80, "TCP", 64), 0)
  /\ UNCHANGED packet_queue
  /\ SnifferUnchanged /\ MainUnchanged /\ AttackUnchanged

\* _handle_error: _last_error, then the error callback, whose exception is
\* swallowed
HandleError(message) ==
  /\ last_error' = message
  /\ \E raised \in CallbackOutcomes(on_error_callback) : TRUE

\* a sniff() failure that is not caught: it reaches _safe_capture_wrapper,
\* which sets status ERROR, and the thread ends
SniffErrorFatal(t) ==
  /\ threads[t].pc = "sniff"
  /\ HandleError("capture thread")
  /\ status' = "ERROR"
  /\ threads' = [ threads EXCEPT ![t] = DeadThread ]
  /\ UNCHANGED << traffic, game, simulation_mode, stop_event, pause_event,
                  capture_thread, blocked_ips, packet_queue, statistics, next_id,
                  AttackVars, CallbackVars, scapy_available, now, wave >>
  /\ MainUnchanged

\* _real_capture_loop: sniff() raises (PermissionError or any other
\* exception); the thread falls back to _simulation_loop
SniffError(t) ==
  /\ threads[t].pc = "sniff"
  /\ HandleError("real capture")
  /\ simulation_mode' = TRUE
  /\ threads' = [ threads EXCEPT ![t].pc = "loop", ![t].real = FALSE ]
  /\ UNCHANGED << traffic, game, status, stop_event, pause_event,
                  capture_thread, blocked_ips, packet_queue, statistics, next_id,
                  AttackVars, CallbackVars, scapy_available, now, wave >>
  /\ MainUnchanged

CaptureStep(t) ==
  \/ SimLoopTop(t)
  \/ SimProcess(t)
  \/ ProcessPut(t)
  \/ ProcessFullGet(t)
  \/ ProcessFullPut(t)
  \/ SniffPacket(t)
  \/ SniffError(t)

(***************************************************************************)
(* Public API: controls.                                                    *)
(***************************************************************************)
ThreadsUnchanged == UNCHANGED << threads, packet_queue, statistics, next_id >>

\* the slot the next threading.Thread takes
FreeSlot ==
  CHOOSE t \in Threads :
    /\ threads[t].pc = "dead"
    /\ \A u \in Threads : threads[u].pc = "dead" => t <= u

\* start(), up to time.sleep(0.1)
StartBegin ==
  /\ \E t \in Threads : threads[t].pc = "dead"
  /\ status' = "STARTING"
  /\ stop_event' = FALSE
  /\ pause_event' = FALSE
  /\ capture_thread' = FreeSlot
  /\ threads' = [ threads EXCEPT ![FreeSlot] =
                    [ DeadThread EXCEPT !.pc = IF simulation_mode THEN "loop" ELSE "sniff",
                                        !.real = ~simulation_mode ] ]
  /\ mpc' = "start_wait"

\* start()
Start ==
  /\ mpc \in { "idle", "restart_sleep" }
  /\ IF status = "RUNNING"
     THEN /\ last_call' = Call("start", "True")
          /\ mpc' = "idle"
          /\ UNCHANGED << status, stop_event, pause_event, capture_thread, threads >>
     ELSE /\ StartBegin
          /\ UNCHANGED last_call
  /\ UNCHANGED << traffic, game, simulation_mode, blocked_ips, packet_queue,
                  statistics, next_id, macc >>
  /\ HooksUnchanged

\* start(), after time.sleep(0.1): is the thread alive?
StartConfirm ==
  /\ mpc = "start_wait"
  /\ IF is_alive(capture_thread)
     THEN /\ status' = "RUNNING"
          /\ last_call' = Call("start", "True")
     ELSE /\ status' = "ERROR"
          /\ last_call' = Call("start", "False")
  /\ mpc' = "idle"
  /\ UNCHANGED << traffic, game, simulation_mode, stop_event, pause_event,
                  capture_thread, blocked_ips, macc >>
  /\ ThreadsUnchanged /\ HooksUnchanged

\* stop(): on to the join, or straight to STOPPED when no thread is alive
StopBegin(join, done) ==
  /\ stop_event' = TRUE
  /\ IF is_alive(capture_thread)
     THEN status' = "SHUTTING_DOWN" /\ mpc' = join /\ UNCHANGED last_call
     ELSE status' = "STOPPED" /\ mpc' = done /\ last_call' = Call("stop", "None")

\* stop(); restart() is stop(), time.sleep(0.2), start()
StopOr(join, done) ==
  /\ mpc = "idle"
  /\ IF status = "STOPPED"
     THEN /\ last_call' = Call("stop", "None")
          /\ mpc' = done
          /\ UNCHANGED << status, stop_event >>
     ELSE StopBegin(join, done)
  /\ UNCHANGED << traffic, game, simulation_mode, pause_event, capture_thread,
                  blocked_ips, macc >>
  /\ ThreadsUnchanged /\ HooksUnchanged

Stop == StopOr("stop_join", "idle")

\* stop(): _capture_thread.join(timeout=2.0) returns, the thread having
\* finished or the timeout having expired; then status = STOPPED
StopJoined(join, done) ==
  /\ mpc = join
  /\ status' = "STOPPED"
  /\ mpc' = done
  /\ last_call' = Call("stop", "None")
  /\ UNCHANGED << traffic, game, simulation_mode, stop_event, pause_event,
                  capture_thread, blocked_ips, macc >>
  /\ ThreadsUnchanged /\ HooksUnchanged

StopJoin == StopJoined("stop_join", "idle")

\* restart(): its stop()
Restart == StopOr("restart_join", "restart_sleep")

RestartJoin == StopJoined("restart_join", "restart_sleep")

\* pause()
DoPause ==
  IF status = "RUNNING"
  THEN pause_event' = TRUE /\ status' = "PAUSED"
  ELSE UNCHANGED << pause_event, status >>

\* resume()
DoResume ==
  IF status = "PAUSED"
  THEN pause_event' = FALSE /\ status' = "RUNNING"
  ELSE UNCHANGED << pause_event, status >>

ControlUnchanged ==
  /\ UNCHANGED << traffic, game, simulation_mode, stop_event, capture_thread,
                  blocked_ips, mpc, macc >>
  /\ HooksUnchanged

Pause ==
  /\ mpc = "idle"
  /\ DoPause
  /\ last_call' = Call("pause", "None")
  /\ ControlUnchanged /\ ThreadsUnchanged

Resume ==
  /\ mpc = "idle"
  /\ DoResume
  /\ last_call' = Call("resume", "None")
  /\ ControlUnchanged /\ ThreadsUnchanged

\* toggle_pause()
TogglePause ==
  /\ mpc = "idle"
  /\ IF pause_event
     THEN DoResume /\ last_call' = Call("toggle_pause", "False")
     ELSE DoPause /\ last_call' = Call("toggle_pause", "True")
  /\ ControlUnchanged /\ ThreadsUnchanged

(***************************************************************************)
(* Public API: packet access.                                               *)
(***************************************************************************)
AccessUnchanged ==
  /\ UNCHANGED << traffic, game, status, simulation_mode, stop_event, pause_event,
                  capture_thread, blocked_ips, threads, statistics, next_id >>
  /\ HooksUnchanged

\* a get_packet that hands over the newest queued packet instead of the oldest
GetPacketNewest ==
  /\ mpc = "idle"
  /\ IF packet_queue = << >>
     THEN /\ last_call' = Call("get_packet", << >>)
          /\ UNCHANGED packet_queue
     ELSE /\ last_call' = Call("get_packet",
                               << mark_processed(packet_queue[Len(packet_queue)]) >>)
          /\ packet_queue' = SubSeq(packet_queue, 1, Len(packet_queue) - 1)
  /\ UNCHANGED << mpc, macc >>
  /\ AccessUnchanged

\* get_packet(): queue.get(timeout) and mark_processed, or None on Empty
GetPacket ==
  /\ mpc = "idle"
  /\ IF packet_queue = << >>
     THEN /\ last_call' = Call("get_packet", << >>)
          /\ UNCHANGED packet_queue
     ELSE /\ last_call' = Call("get_packet", << mark_processed(Head(packet_queue)) >>)
          /\ packet_queue' = Tail(packet_queue)
  /\ UNCHANGED << mpc, macc >>
  /\ AccessUnchanged

\* get_all_packets(): packets = []
GetAllPackets ==
  /\ mpc = "idle"
  /\ mpc' = "get_all"
  /\ macc' = << >>
  /\ UNCHANGED << packet_queue, last_call >>
  /\ AccessUnchanged

\* a get_all_packets that collects the packets newest first
GetAllLoopReversed ==
  /\ mpc = "get_all"
  /\ IF packet_queue = << >>
     THEN /\ last_call' = Call("get_all_packets", macc)
          /\ macc' = << >>
          /\ mpc' = "idle"
          /\ UNCHANGED packet_queue
     ELSE /\ macc' = << Head(packet_queue) >> \o macc
          /\ packet_queue' = Tail(packet_queue)
          /\ UNCHANGED << mpc, last_call >>
  /\ AccessUnchanged

\* get_all_packets(): one turn of `while not self.packet_queue.empty()`
GetAllLoop ==
  /\ mpc = "get_all"
  /\ IF packet_queue = << >>
     THEN /\ last_call' = Call("get_all_packets", macc)
          /\ macc' = << >>
          /\ mpc' = "idle"
          /\ UNCHANGED packet_queue
     ELSE /\ macc' = Append(macc, Head(packet_queue))
          /\ packet_queue' = Tail(packet_queue)
          /\ UNCHANGED << mpc, last_call >>
  /\ AccessUnchanged

\* peek_queue(count)
PeekQueue ==
  /\ mpc = "idle"
  /\ \E count \in 1 .. MAX_QUEUE_SIZE :
       last_call' = Call("peek_queue", SubSeq(packet_queue, 1,
                           IF count < Len(packet_queue) THEN count ELSE Len(packet_queue)))
  /\ UNCHANGED << packet_queue, mpc, macc >>
  /\ AccessUnchanged

\* clear_queue(): count = 0
ClearQueue ==
  /\ mpc = "idle"
  /\ mpc' = "clear"
  /\ macc' = 0
  /\ UNCHANGED << packet_queue, last_call >>
  /\ AccessUnchanged

\* clear_queue(): one turn of `while not self.packet_queue.empty()`
ClearLoop ==
  /\ mpc = "clear"
  /\ IF packet_queue = << >>
     THEN /\ last_call' = Call("clear_queue", macc)
          /\ macc' = << >>
          /\ mpc' = "idle"
          /\ UNCHANGED packet_queue
     ELSE /\ macc' = macc + 1
          /\ packet_queue' = Tail(packet_queue)
          /\ UNCHANGED << mpc, last_call >>
  /\ AccessUnchanged

(***************************************************************************)
(* Public API: IP blocking.                                                 *)
(***************************************************************************)
BlockUnchanged ==
  /\ UNCHANGED << traffic, game, status, simulation_mode, stop_event, pause_event,
                  capture_thread, mpc, macc >>
  /\ HooksUnchanged

\* block_ip(ip)
BlockIp ==
  /\ mpc = "idle"
  /\ \E ip \in BlockArgs : blocked_ips' = blocked_ips \cup { ip }
  /\ last_call' = Call("block_ip", "None")
  /\ BlockUnchanged /\ ThreadsUnchanged

\* unblock_ip(ip)
UnblockIp ==
  /\ mpc = "idle"
  /\ \E ip \in BlockArgs : blocked_ips' = blocked_ips \ { ip }
  /\ last_call' = Call("unblock_ip", "None")
  /\ BlockUnchanged /\ ThreadsUnchanged

\* clear_blocked_ips()
ClearBlockedIps ==
  /\ mpc = "idle"
  /\ blocked_ips' = {}
  /\ last_call' = Call("clear_blocked_ips", "None")
  /\ BlockUnchanged /\ ThreadsUnchanged

(***************************************************************************)
(* Public API: attack simulation, callbacks; the clock.                     *)
(***************************************************************************)
AttackApiUnchanged ==
  /\ UNCHANGED << traffic, game, status, simulation_mode, stop_event, pause_event,
                  capture_thread, blocked_ips, CallbackVars, scapy_available,
                  now, last_error, wave >>
  /\ ThreadsUnchanged

\* trigger_attack(attack_type): the two refusals, or _attack_active and
\* _attack_type
TriggerAttack ==
  /\ mpc = "idle"
  /\ \E arg \in AttackArgs :
       LET atype == Upper(arg) IN
       IF ~simulation_mode \/ atype \notin DOMAIN ATTACK_TYPES
       THEN /\ last_call' = Call("trigger_attack", "False")
            /\ UNCHANGED << AttackVars, mpc, macc >>
       ELSE /\ attack_active' = TRUE
            /\ attack_type' = atype
            /\ mpc' = "trigger_time"
            /\ macc' = << atype >>
            /\ UNCHANGED << attack_start_time, attack_duration, current_rate,
                            last_call >>
  /\ AttackApiUnchanged

\* trigger_attack: _attack_start_time and _attack_duration
TriggerTime ==
  /\ mpc = "trigger_time"
  /\ attack_start_time' = now
  /\ attack_duration' = DictGet(ATTACK_TYPES[macc[1]], "duration", 10)
  /\ mpc' = "trigger_rate"
  /\ UNCHANGED << attack_active, attack_type, current_rate, macc, last_call >>
  /\ AttackApiUnchanged

\* trigger_attack: _current_rate, then the attack callback, called bare: its
\* exception leaves trigger_attack
TriggerRate ==
  /\ mpc = "trigger_rate"
  /\ current_rate' = DictGet(ATTACK_TYPES[macc[1]], "intensity", ATTACK_PACKET_RATE)
  /\ \E raised \in CallbackOutcomes(on_attack_callback) :
       last_call' = Call("trigger_attack", IF raised THEN "raise" ELSE "True")
  /\ mpc' = "idle"
  /\ macc' = << >>
  /\ UNCHANGED << attack_active, attack_type, attack_start_time, attack_duration >>
  /\ AttackApiUnchanged

\* is_under_attack()
IsUnderAttack ==
  /\ mpc = "idle"
  /\ IF ~attack_active
     THEN /\ last_call' = Call("is_under_attack", "False")
          /\ UNCHANGED AttackVars
     ELSE IF AttackElapsed
     THEN /\ StopAttackWrites
          /\ last_call' = Call("is_under_attack", "False")
     ELSE /\ last_call' = Call("is_under_attack", "True")
          /\ UNCHANGED AttackVars
  /\ UNCHANGED << mpc, macc >>
  /\ AttackApiUnchanged

CallbackApiUnchanged ==
  /\ UNCHANGED << traffic, game, status, simulation_mode, stop_event, pause_event,
                  capture_thread, blocked_ips, AttackVars, scapy_available,
                  now, last_error, wave, mpc, macc >>
  /\ ThreadsUnchanged

\* set_packet_callback(callback)
SetPacketCallback ==
  /\ mpc = "idle"
  /\ on_packet_callback' = "set"
  /\ last_call' = Call("set_packet_callback", "None")
  /\ UNCHANGED << on_attack_callback, on_error_callback >>
  /\ CallbackApiUnchanged

\* set_attack_callback(callback)
SetAttackCallback ==
  /\ mpc = "idle"
  /\ on_attack_callback' = "set"
  /\ last_call' = Call("set_attack_callback", "None")
  /\ UNCHANGED << on_packet_callback, on_error_callback >>
  /\ CallbackApiUnchanged

\* set_error_callback(callback)
SetErrorCallback ==
  /\ mpc = "idle"
  /\ on_error_callback' = "set"
  /\ last_call' = Call("set_error_callback", "None")
  /\ UNCHANGED << on_packet_callback, on_attack_callback >>
  /\ CallbackApiUnchanged

\* time passes, up to a limit
TickUpTo(limit) ==
  /\ now + TickStep <= limit
  /\ now' = now + TickStep
  /\ UNCHANGED << traffic, game, status, simulation_mode, stop_event, pause_event,
                  capture_thread, blocked_ips, mpc, macc, last_call,
                  AttackVars, CallbackVars, last_error, scapy_available, wave >>
  /\ ThreadsUnchanged

Tick == TickUpTo(MaxTime)

\* time passes during a game of waves
WaveTick == TickUpTo(MaxWaveTime)

(***************************************************************************)
(* game_enhancements.py: the wave system driven frame by frame.             *)
(***************************************************************************)
WaveUnchanged ==
  /\ UNCHANGED << traffic, game, status, simulation_mode, stop_event, pause_event,
                  capture_thread, blocked_ips, mpc, macc, now,
                  AttackVars, CallbackVars, last_error, scapy_available >>
  /\ ThreadsUnchanged

\* WaveSystem.start_game()
WaveStartGame ==
  /\ wave' = start_game(wave, now)
  /\ last_call' = Call("start_game", "None")
  /\ WaveUnchanged

\* WaveSystem.update()
WaveUpdate ==
  /\ wave' = update(wave, now)
  /\ last_call' = Call("update", update_status(wave, now))
  /\ WaveUnchanged

(***************************************************************************)
(* main.py: the render loop as the consumer of the queue.                   *)
(***************************************************************************)
GameUnchanged ==
  /\ UNCHANGED << traffic, status, simulation_mode, stop_event, pause_event,
                  capture_thread, blocked_ips, threads, statistics, next_id,
                  macc, last_call >>
  /\ HooksUnchanged

\* CyberDefenseGame._spawn_packet(source_ip); `malicious` is what
\* _classify_packet draws
SpawnPacket(g, source_ip, malicious) ==
  IF g.packet_sprites >= MAX_PACKETS THEN g
  ELSE IF source_ip \in g.blocked_ips THEN g
  ELSE IF g.defense_mode = "AUTO" /\ malicious
       THEN \* block_callback -> _default_block
            [ g EXCEPT !.packet_sprites = @ + 1, !.blocked_ips = @ \cup { source_ip } ]
       ELSE [ g EXCEPT !.packet_sprites = @ + 1 ]

\* _process_external_packets, for one record of the queue: a dict or a str
\* is spawned, anything else is dropped
HandleRecord(g, data, malicious) ==
  IF data.pytype = "dict" THEN SpawnPacket(g, data.src, malicious)
  ELSE IF data.pytype = "str" THEN SpawnPacket(g, data.value, malicious)
  ELSE g

\* _update_game_logic calls _process_external_packets
ProcessExternalPackets ==
  /\ mpc = "idle"
  /\ mpc' = "external"
  /\ UNCHANGED << packet_queue, game >>
  /\ GameUnchanged

\* _process_external_packets: one turn of `while True: get_nowait()`
ExternalLoop ==
  /\ mpc = "external"
  /\ IF packet_queue = << >>
     THEN \* queue.Empty ends the loop
          /\ mpc' = "idle"
          /\ UNCHANGED << packet_queue, game >>
     ELSE /\ packet_queue' = Tail(packet_queue)
          /\ \E malicious \in BOOLEAN :
               game' = HandleRecord(game, Head(packet_queue), malicious)
          /\ UNCHANGED mpc
  /\ GameUnchanged

\* _spawn_demo_packet: a sprite for a random address
SpawnDemoPacket ==
  /\ mpc = "idle"
  /\ \E ip \in BlockArgs, malicious \in BOOLEAN :
       game' = SpawnPacket(game, ip, malicious)
  /\ UNCHANGED << packet_queue, mpc >>
  /\ GameUnchanged

\* a sprite reaches the server or is cleared (kill)
SpriteLeaves ==
  /\ mpc = "idle"
  /\ game.packet_sprites > 0
  /\ game' = [ game EXCEPT !.packet_sprites = @ - 1 ]
  /\ UNCHANGED << packet_queue, mpc >>
  /\ GameUnchanged

\* _on_defense_mode_change
DefenseModeChange ==
  /\ mpc = "idle"
  /\ \E is_auto \in BOOLEAN :
       game' = [ game EXCEPT !.defense_mode = IF is_auto THEN "AUTO" ELSE "MANUAL" ]
  /\ UNCHANGED << packet_queue, mpc >>
  /\ GameUnchanged

(***************************************************************************)
(* Packet construction on its own.                                          *)
(***************************************************************************)
\* one address of each list, one of no list, one server
ClassifyInputs ==
  { "8.8.8.8", "103.75.201.2", "45.33.32.156", "203.0.113.7", "192.168.1.100" }

\* Packet(src_ip=..., dst_ip=..., dst_port=..., protocol=..., size=...)
ConstructPacket ==
  /\ \E src \in ClassifyInputs, dst \in { "192.168.1.100", "8.8.8.8", "203.0.113.7" },
        port \in { 22, 443 }, proto \in { "TCP", "UDP", "ICMP" }, size \in { 64, 1500 } :
       last_call' = Call("Packet", NewPacket(0, src, dst, port, proto, size))
  /\ UNCHANGED << traffic, game, status, simulation_mode, stop_event, pause_event,
                  capture_thread, blocked_ips, threads, packet_queue, statistics,
                  next_id, mpc, macc >>
  /\ HooksUnchanged

(***************************************************************************)
(* Specifications.  Every one runs the capture threads; they differ in the  *)
(* part of the public API the owner of the sniffer calls.                   *)
(***************************************************************************)
Capture == \E t \in Threads : CaptureStep(t)

\* the controls: start, stop, restart, pause, resume, toggle_pause
Next ==
  \/ Capture
  \/ Start \/ StartConfirm
  \/ Stop \/ StopJoin
  \/ Restart \/ RestartJoin
  \/ Pause \/ Resume \/ TogglePause
  \/ GetPacket

Spec == Init /\ [][Next]_vars

\* the consumer of the queue
NextQueue ==
  \/ Capture
  \/ Start \/ StartConfirm \/ Pause
  \/ GetPacket \/ GetAllPackets \/ GetAllLoop \/ PeekQueue
  \/ ClearQueue \/ ClearLoop

SpecQueue == Init /\ [][NextQueue]_vars

\* the firewall integration
NextBlock ==
  \/ Capture
  \/ Start \/ StartConfirm
  \/ BlockIp \/ UnblockIp \/ ClearBlockedIps
  \/ GetPacket

\* the sniffer on a network with a whitelisted and a blacklisted source
InitBlock ==
  /\ InitSniffer
  /\ traffic = BlockArgs

SpecBlock == InitBlock /\ [][NextBlock]_vars

\* the sniffer constructed with or without Scapy at hand, started and
\* stopped, real capture free to fail
InitFallback ==
  /\ \E simulation \in BOOLEAN, scapy_loads \in BOOLEAN :
       ConstructSniffer(simulation, scapy_loads)
  /\ traffic = { "8.8.8.8" }

NextFallback ==
  \/ Capture
  \/ Start \/ StartConfirm
  \/ Stop \/ StopJoin
  \/ GetPacket

SpecFallback == InitFallback /\ [][NextFallback]_vars

\* the game wired to the sniffer's queue
NextGame ==
  \/ Capture
  \/ Start \/ StartConfirm
  \/ ProcessExternalPackets \/ ExternalLoop
  \/ SpawnDemoPacket \/ SpriteLeaves \/ DefenseModeChange

SpecGame == Init /\ [][NextGame]_vars

\* the attack simulation at work, the clock running
NextAttack ==
  \/ Capture
  \/ Start \/ StartConfirm
  \/ TriggerAttack \/ TriggerTime \/ TriggerRate
  \/ IsUnderAttack
  \/ SetAttackCallback
  \/ Tick

SpecAttack == Init /\ [][NextAttack]_vars

\* callbacks registered, each call of one free to raise
NextCallback ==
  \/ Capture
  \/ Start \/ StartConfirm
  \/ SetPacketCallback \/ SetAttackCallback \/ SetErrorCallback
  \/ TriggerAttack \/ TriggerTime \/ TriggerRate

SpecCallback == Init /\ [][NextCallback]_vars

\* a game of waves
NextWave == WaveStartGame \/ WaveUpdate \/ WaveTick

SpecWave == Init /\ [][NextWave]_vars

\* packets built from any addresses, ports, protocol and size
NextClassify == ConstructPacket

SpecClassify == Init /\ [][NextClassify]_vars

(***************************************************************************)
(* The claims.                                                              *)
(***************************************************************************)
Range(q) == { q[i] : i \in 1 .. Len(q) }

\* the packet a capture thread holds inside _process_packet
InHand(t) == threads[t].pkt # << >>

\* C1: in every reachable state, whatever the interleaving of the capture
\* threads' _process_packet with get_packet, get_all_packets and clear_queue,
\* packet_queue holds between 0 and MAX_QUEUE_SIZE packets.
C1_QueueBounded ==
  /\ Len(packet_queue) >= 0
  /\ Len(packet_queue) <= MAX_QUEUE_SIZE

\* the queue is full, a capture thread is about to put, the consumer is in the
\* middle of get_all_packets or clear_queue
C1_Witness ==
  /\ Len(packet_queue) = MAX_QUEUE_SIZE
  /\ \E t \in Threads : threads[t].pc = "put" /\ ~threads[t].pkt[1].is_blocked
  /\ mpc \in { "get_all", "clear" }

\* C2: a _process_packet call that finds the queue full for a non-blocked
\* packet returns True, the new packet having been put on the queue: in no
\* interleaving with the consumer is the new packet the one that is lost.
C2_NewPacketNeverLost ==
  \A t \in Threads :
    (threads[t].saw_full /\ threads[t].ret # "None") => threads[t].ret = "True"

\* C3: at most one capture thread is alive, whatever start(), stop(), pause(),
\* resume(), toggle_pause() and restart() calls were made.
C3_SingleProducer == Cardinality(AliveThreads) <= 1

C5_DequeuedRecordIsSpawned ==
  [][ ( /\ mpc = "external"
        /\ UNCHANGED threads
        /\ packet_queue # << >>
        /\ packet_queue' = Tail(packet_queue)
        /\ game.packet_sprites < MAX_PACKETS
        /\ Head(packet_queue).src_ip \notin game.blocked_ips )
      => game'.packet_sprites = game.packet_sprites + 1 ]_vars

\* the packets a step adds to the queue
Added == Range(packet_queue') \ Range(packet_queue)

\* C6 as stated: once block_ip(ip) has returned and until unblock_ip(ip) or
\* clear_blocked_ips(), no packet whose source is ip is added to the queue.
C6_NoBlockedSourceEnqueued ==
  [][ \A p \in Added : p.src_ip \notin blocked_ips ]_vars

\* C6 amended: a packet whose blocked check runs while its source is in
\* _blocked_ips is marked blocked (is_blocked, damage 0, tag "blocked"), is
\* never put on the queue, and _process_packet returns False for it.
C6_CheckedWhileBlocked ==
  [][ /\ \A t \in Threads :
           ( /\ threads[t].pc \in { "process", "sniff" }
             /\ threads'[t].pc = "put"
             /\ threads'[t].pkt[1].src_ip \in blocked_ips )
           => LET p == threads'[t].pkt[1] IN
              /\ p.is_blocked
              /\ p.damage = 0
              /\ p.tags[Len(p.tags)] = "blocked"
      /\ \A t \in Threads :
           ( /\ threads[t].pc = "put"
             /\ threads[t].pkt[1].is_blocked
             /\ threads'[t] # threads[t] )
           => /\ threads'[t].ret = "False"
              /\ packet_queue' = packet_queue
      /\ \A p \in Range(packet_queue') : ~p.is_blocked ]_vars

\* _process_packet has returned False for a packet it marked blocked
C6_Witness ==
  /\ blocked_ips # {}
  /\ statistics.total_blocked > 0
  /\ \E t \in Threads : threads[t].ret = "False" /\ ~threads[t].saw_full

\* C7: a packet whose source is in WHITELISTED_IPS is never marked blocked.
C7_WhitelistedNeverBlocked ==
  \A t \in Threads :
    (InHand(t) /\ threads[t].pkt[1].src_ip \in WHITELISTED_IPS)
      => ~threads[t].pkt[1].is_blocked

\* C8: once stop() has returned with status STOPPED, and until the next
\* start(), no capture thread adds a packet to the queue or updates the
\* statistics.
C8_StoppedIsQuiet ==
  [][ (status = "STOPPED" /\ mpc \in { "idle", "restart_sleep" })
      => (Added = {} /\ statistics' = statistics) ]_vars

C10_ToggleResultMatchesStatus ==
  last_call.op = "toggle_pause" =>
    /\ last_call.ret = "True" => status = "PAUSED"
    /\ last_call.ret = "False" => status = "RUNNING"

\* the packets the capture threads hold and the queued ones, by packet_id
HeldIds(th) == { th[t].pkt[1].packet_id : t \in { u \in Threads : th[u].pkt # << >> } }

QueuedIds(q) == { q[i].packet_id : i \in 1 .. Len(q) }

\* C11: get_packet returns None and leaves the queue alone when it is empty,
\* otherwise it removes and returns (marked processed) the oldest queued
\* packet; every step changes the queue only by removing its head or by
\* appending at its tail a packet a capture thread gives away, and no packet
\* is at two places (twice in the queue, queued and still held, or delivered
\* and still queued or held): deliveries follow the enqueue order and never
\* repeat.
C11_GetPacketIsFifo ==
  [][ /\ ( /\ mpc = "idle" /\ mpc' = "idle"
           /\ threads' = threads
           /\ last_call'.op = "get_packet" )
         => IF packet_queue = << >>
            THEN last_call'.ret = << >> /\ packet_queue' = packet_queue
            ELSE /\ last_call'.ret =
                      << [ Head(packet_queue) EXCEPT !.is_processed = TRUE ] >>
                 /\ packet_queue' = Tail(packet_queue)
      /\ \/ packet_queue' = packet_queue
         \/ packet_queue # << >> /\ packet_queue' = Tail(packet_queue)
         \/ \E t \in Threads :
              /\ threads[t].pkt # << >>
              /\ packet_queue' = Append(packet_queue, threads[t].pkt[1])
              /\ threads'[t].pkt = << >>
      /\ Cardinality(QueuedIds(packet_queue')) = Len(packet_queue')
      /\ QueuedIds(packet_queue') \cap HeldIds(threads') = {}
      /\ \A t, u \in Threads :
           (t # u /\ threads'[t].pkt # << >> /\ threads'[u].pkt # << >>)
             => threads'[t].pkt[1].packet_id # threads'[u].pkt[1].packet_id
      /\ (last_call'.op = "get_packet" /\ Len(last_call'.ret) > 0)
           => last_call'.ret[1].packet_id
                \notin (QueuedIds(packet_queue') \cup HeldIds(threads')) ]_vars

\* get_packet has delivered the second packet while a later one is queued
C11_Witness ==
  /\ last_call.op = "get_packet"
  /\ Len(last_call.ret) > 0
  /\ last_call.ret[1].packet_id = 2
  /\ last_call.ret[1].is_processed
  /\ packet_queue # << >>

\* C12: as long as no capture thread takes a step in between, every step of
\* get_all_packets keeps (packets collected so far, then the queue) the same
\* sequence, starting with nothing collected and returning the collection
\* when the queue is empty: the result is the queue as it was at the call, in
\* FIFO order, and the queue is left empty.  Likewise every step of
\* clear_queue keeps count + queue length the same, starting at 0 and
\* returning the count when the queue is empty.
C12_DrainReturnsWhatWasQueued ==
  [][ /\ (mpc = "idle" /\ mpc' = "get_all")
         => (macc' = << >> /\ packet_queue' = packet_queue)
      /\ (mpc = "get_all" /\ threads' = threads)
         => IF packet_queue = << >>
            THEN /\ mpc' = "idle"
                 /\ last_call' = Call("get_all_packets", macc)
                 /\ packet_queue' = << >>
            ELSE /\ mpc' = "get_all"
                 /\ Len(packet_queue') = Len(packet_queue) - 1
                 /\ macc' \o packet_queue' = macc \o packet_queue
      /\ (mpc = "idle" /\ mpc' = "clear")
         => (macc' = 0 /\ packet_queue' = packet_queue)
      /\ (mpc = "clear" /\ threads' = threads)
         => IF packet_queue = << >>
            THEN /\ mpc' = "idle"
                 /\ last_call' = Call("clear_queue", macc)
                 /\ packet_queue' = << >>
            ELSE /\ mpc' = "clear"
                 /\ Len(packet_queue') = Len(packet_queue) - 1
                 /\ macc' + Len(packet_queue') = macc + Len(packet_queue) ]_vars

\* get_all_packets has returned a full queue's packets, oldest first, while
\* the capture was paused and every capture thread waited at its pause check
C12_Witness ==
  /\ last_call.op = "get_all_packets"
  /\ Len(last_call.ret) = MAX_QUEUE_SIZE
  /\ last_call.ret[1].packet_id < last_call.ret[2].packet_id
  /\ packet_queue = << >>
  /\ status = "PAUSED"
  /\ \A t \in Threads : threads[t].pc \in { "dead", "loop", "sniff" }

\* C13: a trigger_attack that refuses returns False and leaves the attack
\* fields alone; it accepts only in simulation mode and for a key of
\* ATTACK_TYPES; a trigger_attack that accepts returns True with the attack
\* active, _attack_type the upper-cased name and _current_rate that attack's
\* intensity.
C13_TriggerAttackResult ==
  [][ /\ ( /\ mpc = "idle" /\ mpc' = "idle"
           /\ threads' = threads /\ now' = now
           /\ last_call'.op = "trigger_attack" )
         => (last_call'.ret = "False" /\ UNCHANGED AttackVars)
      /\ (mpc = "idle" /\ mpc' = "trigger_time")
         => (simulation_mode /\ macc'[1] \in DOMAIN ATTACK_TYPES)
      /\ (mpc = "trigger_rate" /\ mpc' = "idle")
         => /\ last_call' = Call("trigger_attack", "True")
            /\ attack_active'
            /\ attack_type' = macc[1]
            /\ current_rate' = ATTACK_TYPES[macc[1]].intensity ]_vars

\* C14: an is_under_attack() that comes right after a trigger_attack that
\* returned True, before the attack's duration is over, returns True; an
\* is_under_attack() or a simulation-loop iteration that finds the attack
\* active and its duration over ends it; and whenever no attack is active
\* (and no trigger_attack is under way) _attack_type is None and
\* _current_rate is NORMAL_PACKET_RATE.
C14_AttackRunsThenEnds ==
  [][ /\ ( /\ last_call = Call("trigger_attack", "True")
           /\ last_call'.op = "is_under_attack"
           /\ now - attack_start_time < attack_duration )
         => last_call'.ret = "True"
      /\ ( /\ attack_active /\ AttackElapsed
           /\ \/ last_call'.op = "is_under_attack" /\ last_call' # last_call
              \/ \E t \in Threads :
                   /\ threads[t].pc = "loop" /\ threads'[t].pc = "process"
                   /\ mpc' = mpc )
         => ~attack_active'
      /\ (~attack_active' /\ mpc' = "idle")
         => (attack_type' = "None" /\ current_rate' = NORMAL_PACKET_RATE) ]_vars

\* C15: no call of trigger_attack ends with the exception of the attack
\* callback; a capture thread ends only when stop() has set the stop event;
\* a packet whose packet callback raised is counted in the statistics, and if
\* it is not blocked the put that follows adds it to the queue.
C15_CallbackErrorsContained ==
  [][ /\ last_call'.op = "trigger_attack" => last_call'.ret # "raise"
      /\ \A t \in Threads :
           (threads[t].pc # "dead" /\ threads'[t].pc = "dead") => stop_event
      /\ \A t \in Threads :
           ( /\ threads[t].pc \in { "process", "sniff" }
             /\ threads'[t].pc = "put"
             /\ threads'[t].cb_raised )
           => statistics'.total_captured = statistics.total_captured + 1
      /\ \A t \in Threads :
           ( /\ threads[t].pc \in { "put", "full_put" }
             /\ threads[t].cb_raised
             /\ ~threads[t].pkt[1].is_blocked
             /\ threads'[t].pkt = << >> )
           => threads[t].pkt[1] \in Range(packet_queue') ]_vars

\* C16: real capture mode is on only where Scapy was loaded; a failure of
\* sniff() turns simulation_mode on and leaves the thread alive in the
\* simulation loop, status and _capture_thread as they were; simulation_mode
\* never goes back; a capture thread ends only once stop() has set the stop
\* event; status is never ERROR.
C16_FallsBackToSimulation ==
  /\ [](~scapy_available => simulation_mode)
  /\ [](status # "ERROR")
  /\ [][ /\ \A t \in Threads :
             (threads[t].pc = "sniff" /\ threads'[t].pc \notin { "sniff", "put", "dead" })
               => /\ simulation_mode'
                  /\ threads'[t].pc = "loop"
                  /\ ~threads'[t].real
                  /\ status' = status
                  /\ capture_thread' = capture_thread
         /\ simulation_mode => simulation_mode'
         /\ \A t \in Threads :
             (threads[t].pc # "dead" /\ threads'[t].pc = "dead") => stop_event ]_vars

\* the running capture thread, started for real capture, fell back and is
\* putting a simulated packet after others
C16_Witness ==
  /\ last_error = "real capture"
  /\ scapy_available
  /\ simulation_mode
  /\ status = "RUNNING"
  /\ packet_queue # << >>
  /\ \E t \in Threads :
       /\ capture_thread = t
       /\ threads[t].pc = "process"
       /\ ~threads[t].real
       /\ threads[t].remaining > 0

\* C17: an update() that finds a wave active completes it if and only if
\* wave_duration (30) seconds have passed since the wave started, whatever
\* the number of the wave.
C17_WaveLastsWaveDuration ==
  [][ ( /\ last_call'.op = "update" /\ now' = now
        /\ wave.wave_active
        /\ wave.current_wave \in 1 .. total_waves )
      => ( wave'.waves_completed = wave.waves_completed + 1
             <=> now - wave.wave_start_time >= wave_duration ) ]_vars

====
